---- MODULE Spec2Model ----
(***************************************************************************)
(* Model of the Financial Times scraper (ft_scraper.py):                   *)
(*   get_page_content      retrying fetch of one page                      *)
(*   extract_ft_articles   page -> article records                         *)
(*   scrape_source_parallel one pooled extraction task                     *)
(*   scrape_all_sources    main source, thread pool, as_completed          *)
(*                         collection, url de-duplication, filter, bound   *)
(*   filter_articles       relevance / quality filter                      *)
(* Specifications:                                                         *)
(*   Spec          one run of scrape_all_sources, tasks taken as one step  *)
(*   SpecPipeline  the stages after the pool, on every merged sequence     *)
(*   SpecFetch     one call of get_page_content, on every network script   *)
(*   SpecFilter    one call of filter_articles, under every keyword list   *)
(*   SpecDriver    the running tasks inside get_page_content, statement by *)
(*                 statement, on the shared browser and session            *)
(***************************************************************************)
EXTENDS Integers, Sequences, FiniteSets, TLC

VARIABLES
    pc,                 \* position of the thread running scrape_all_sources
    min_articles,       \* self.min_articles
    max_articles,       \* self.max_articles
    tstate,             \* per additional source: state of its future
    result,             \* per additional source: the future's result
    outcome,            \* per source: what the extraction met ("ok"/"failed")
    completed,          \* futures finished and not yet yielded by as_completed
    collected,          \* sources whose result was appended to all_articles
    all_articles,       \* local all_articles
    unique_articles,    \* local unique_articles
    filtered_articles,  \* local filtered_articles
    articles,           \* self.articles
    returned,           \* value returned by scrape_all_sources
    warnings,           \* logger.warning "Only found X articles, less than minimum Y"
    errors,             \* sources named by a logger.error entry
    fetch_in,           \* arguments and network script of one get_page_content call
    fetch_out,          \* what that call did and returned
    keywords,           \* RELEVANT_KEYWORDS as configured
    driver_page,        \* the page loaded in self.driver
    session_headers,    \* the User-Agent of self.session.headers
    tpos,               \* per additional source: position of its worker
                        \* inside get_page_content
    page_content        \* per additional source: the content its worker got

vars == <<pc, min_articles, max_articles, tstate, result, outcome, completed,
          collected, all_articles, unique_articles, filtered_articles, articles,
          returned, warnings, errors, fetch_in, fetch_out, keywords,
          driver_page, session_headers, tpos, page_content>>

(***************************************************************************)
(* Bounds of the model.                                                    *)
(***************************************************************************)
\* number of entries of ADDITIONAL_SOURCES
NAdditional == 4
\* longest merged sequence handed to the de-duplication in SpecPipeline
MaxLen == 4
\* largest min_articles / max_articles drawn in SpecPipeline
MaxArg == 3
\* largest max_retries drawn in SpecFetch
MaxRetriesBound == 3
\* longest articles list handed to filter_articles in SpecFilter
MaxFilterLen == 3

(***************************************************************************)
(* Program constants.                                                      *)
(***************************************************************************)
\* min(3, len(sources_to_scrape))
PoolLimit == 3
\* len(title) >= 10
MinTitleLen == 10
\* def get_page_content(self, url, use_selenium=False, max_retries=3)
DefaultMaxRetries == 3

MainSource == 0
AdditionalSources == 1..NAdditional
Sources == {MainSource} \cup AdditionalSources

(***************************************************************************)
(* Strings are sequences of one-character strings.                         *)
(***************************************************************************)
UpperCase == <<"A","B","C","D","E","F","G","H","I","J","K","L","M",
               "N","O","P","Q","R","S","T","U","V","W","X","Y","Z">>
LowerCase == <<"a","b","c","d","e","f","g","h","i","j","k","l","m",
               "n","o","p","q","r","s","t","u","v","w","x","y","z">>

\* str.lower() on one character
lower_char(c) ==
    IF \E i \in 1..Len(UpperCase) : UpperCase[i] = c
    THEN LowerCase[CHOOSE i \in 1..Len(UpperCase) : UpperCase[i] = c]
    ELSE c

\* str.lower()
str_lower(s) == [i \in 1..Len(s) |-> lower_char(s[i])]

\* Python's  needle in hay  on strings
str_in(needle, hay) ==
    \E i \in 0..(Len(hay) - Len(needle)) :
        SubSeq(hay, i + 1, i + Len(needle)) = needle

\* str.startswith(prefix)
startswith(s, prefix) ==
    /\ Len(s) >= Len(prefix)
    /\ SubSeq(s, 1, Len(prefix)) = prefix

\* 'https://www.ft.com/'
FT_PREFIX == <<"h","t","t","p","s",":","/","/","w","w","w",".","f","t",".","c","o","m","/">>

\* a sample of RELEVANT_KEYWORDS: 'ai', 'tech', 'bank'
RELEVANT_KEYWORDS == { <<"a","i">>, <<"t","e","c","h">>, <<"b","a","n","k">> }

\* a sample of USER_AGENTS, named by their browser
USER_AGENTS == {"Chrome", "Firefox"}
\* the agent update_session_headers drew in __init__
InitialAgent == "Chrome"

(***************************************************************************)
(* The teasers the remote pages can show: url, title, summary.             *)
(*   1  ft.com/a  "AI in banks"                                            *)
(*   2  ft.com/a  "Tech rally on"    (same url as 1, another title)        *)
(*   3  ft.com/b  "Gilt yields up"   (no keyword)                          *)
(*   4  ft.com/c  "AI wins"          (title shorter than 10)               *)
(*   5  http://x/a "AI in banks"     (not an FT link)                      *)
(*   6  ft.com/d  "Oil price dips", summary "Bank view"                    *)
(*   7  ft.com/e  "Chip tech deal"                                         *)
(*   8  ft.com/f  "Short"            (no keyword, shorter than 10)         *)
(***************************************************************************)
Teasers == <<
    [url |-> FT_PREFIX \o <<"a">>,
     title |-> <<"A","I"," ","i","n"," ","b","a","n","k","s">>,
     summary |-> <<>>],
    [url |-> FT_PREFIX \o <<"a">>,
     title |-> <<"T","e","c","h"," ","r","a","l","l","y"," ","o","n">>,
     summary |-> <<>>],
    [url |-> FT_PREFIX \o <<"b">>,
     title |-> <<"G","i","l","t"," ","y","i","e","l","d","s"," ","u","p">>,
     summary |-> <<>>],
    [url |-> FT_PREFIX \o <<"c">>,
     title |-> <<"A","I"," ","w","i","n","s">>,
     summary |-> <<>>],
    [url |-> <<"h","t","t","p",":","/","/","x","/","a">>,
     title |-> <<"A","I"," ","i","n"," ","b","a","n","k","s">>,
     summary |-> <<>>],
    [url |-> FT_PREFIX \o <<"d">>,
     title |-> <<"O","i","l"," ","p","r","i","c","e"," ","d","i","p","s">>,
     summary |-> <<"B","a","n","k"," ","v","i","e","w">>],
    [url |-> FT_PREFIX \o <<"e">>,
     title |-> <<"C","h","i","p"," ","t","e","c","h"," ","d","e","a","l">>,
     summary |-> <<>>],
    [url |-> FT_PREFIX \o <<"f">>,
     title |-> <<"S","h","o","r","t">>,
     summary |-> <<>>] >>

TeaserIds == DOMAIN Teasers

\* An article dict {'source', 'title', 'url', 'summary', ...}: the source that
\* produced it and the teaser it was read from.
Article(s, t) == [source |-> s, teaser |-> t]
url_of(a) == Teasers[a.teaser].url
title_of(a) == Teasers[a.teaser].title
summary_of(a) == Teasers[a.teaser].summary

(***************************************************************************)
(* Remove duplicates based on URL (scrape_all_sources).                    *)
(***************************************************************************)
RECURSIVE dedup_loop(_, _, _)
dedup_loop(rest, seen_urls, unique) ==
    IF rest = <<>> THEN unique
    ELSE LET article == Head(rest) IN
         IF url_of(article) \notin seen_urls
         THEN dedup_loop(Tail(rest), seen_urls \cup {url_of(article)},
                         Append(unique, article))
         ELSE dedup_loop(Tail(rest), seen_urls, unique)

\* seen_urls.add forgotten: every article is appended
remove_duplicates_noseen(all) == all

\* seen_urls.remove(url) at a hit: the url is forgotten at its second
\* occurrence, so its third occurrence is appended again
remove_duplicates_forgetting(all) ==
    LET before(i) == {j \in 1..(i - 1) : url_of(all[j]) = url_of(all[i])}
        kept == {i \in 1..Len(all) : Cardinality(before(i)) % 2 = 0}
    IN  [k \in 1..Cardinality(kept) |->
            all[CHOOSE i \in kept : Cardinality({j \in kept : j <= i}) = k]]

remove_duplicates(all) == dedup_loop(all, {}, <<>>)

(***************************************************************************)
(* filter_articles.                                                        *)
(***************************************************************************)
\* any(keyword in title_lower or keyword in summary_lower
\*     for keyword in RELEVANT_KEYWORDS): the title and the summary are
\* lower-cased, the keyword is used as it is written
is_relevant(t, kws) ==
    \E keyword \in kws :
        \/ str_in(keyword, str_lower(t.title))
        \/ str_in(keyword, str_lower(t.summary))

has_minimum_length(t) == Len(t.title) >= MinTitleLen

has_valid_url(t) == startswith(t.url, FT_PREFIX)

\* is_relevant and has_minimum_length and has_valid_url
passes(t, kws) ==
    /\ is_relevant(t, kws)
    /\ has_minimum_length(t)
    /\ has_valid_url(t)

\* the keyword lists RELEVANT_KEYWORDS is configured with: the sample of
\* config.py, ['ai'], ['AI'], ['Tech', 'bank'] and []
KeywordLists ==
    { RELEVANT_KEYWORDS,
      { <<"a","i">> },
      { <<"A","I">> },
      { <<"T","e","c","h">>, <<"b","a","n","k">> },
      {} }

\* per keyword list, the teasers whose articles pass
passing_teasers ==
    [kws \in KeywordLists |-> {i \in TeaserIds : passes(Teasers[i], kws)}]

keeps(a, kws) == a.teaser \in passing_teasers[kws]

\* filtered.insert(0, article) written for filtered.append(article)
filter_articles_prepending(arts, kws) ==
    LET kept == SelectSeq(arts, LAMBDA a : keeps(a, kws))
    IN  [i \in 1..Len(kept) |-> kept[Len(kept) + 1 - i]]

filter_articles(arts, kws) == SelectSeq(arts, LAMBDA a : keeps(a, kws))

(***************************************************************************)
(* The cardinality checks at the end of scrape_all_sources.                *)
(***************************************************************************)
\* seq[-n:] written for seq[:n]: the last n are kept
slice_last(seq, n) ==
    IF n >= 0
    THEN SubSeq(seq, (IF n < Len(seq) THEN Len(seq) - n ELSE 0) + 1, Len(seq))
    ELSE SubSeq(seq, 1, IF Len(seq) + n > 0 THEN Len(seq) + n ELSE 0)

\* Python's seq[:n]
slice_to(seq, n) ==
    IF n >= 0
    THEN SubSeq(seq, 1, IF n < Len(seq) THEN n ELSE Len(seq))
    ELSE SubSeq(seq, 1, IF Len(seq) + n > 0 THEN Len(seq) + n ELSE 0)

\* the comparison is off by one: a count of min - 1 passes without a warning
too_few_off_by_one(filtered, min) == Len(filtered) < min - 1

\* if len(filtered_articles) < self.min_articles: logger.warning(...)
too_few(filtered, min) == Len(filtered) < min

\* the maximum cut is skipped
limit_articles_skipped(filtered, max) == filtered

\* if len(filtered_articles) > self.max_articles: filtered_articles[:max]
limit_articles(filtered, max) ==
    IF Len(filtered) > max THEN slice_to(filtered, max) ELSE filtered

(***************************************************************************)
(* get_page_content.  The network is a script: what the browser and the    *)
(* HTTP session do at each attempt.                                        *)
(*   sel   "page"  driver.page_source is a non-empty page                  *)
(*         "none"  no driver, or an empty page_source                      *)
(*         "error" get_page_with_selenium caught and logged an exception   *)
(*   http  "ok"     response.text is the page of the url                   *)
(*         "empty"  response.text is ''                                    *)
(*         "reqexc" requests.exceptions.RequestException (timeout, status) *)
(*         "exc"    any other Exception                                    *)
(***************************************************************************)
AttemptOutcomes ==
    {[sel |-> "page", http |-> "ok"]} \cup
    [sel : {"none", "error"}, http : {"ok", "empty", "reqexc", "exc"}]

\* response.text == ''
EmptyPage == -1

None == [kind |-> "None", text |-> EmptyPage]
Str(p) == [kind |-> "str", text |-> p]

\* position of a worker inside get_page_content: where it is and the value
\* of `attempt`; a worker outside the call is idle
Pos(at, attempt) == [at |-> at, attempt |-> attempt]
IdlePos == Pos("idle", 0)

\* Python truthiness of a page content:  not content
falsy(content) == content.kind = "None" \/ content.text = EmptyPage

FetchReturn(ret, trace) == [ret |-> ret, raised |-> FALSE, trace |-> trace]
FetchRaise(trace) == [ret |-> None, raised |-> TRUE, trace |-> trace]

\* the last-attempt branch re-raises instead of returning None
exhausted_raises(trace) == FetchRaise(Append(trace, "log_error"))

\* time.sleep written before the test of `attempt`: the last failed attempt
\* sleeps too before the fetch gives up
exhausted_after_sleep(trace) ==
    FetchReturn(None, trace \o <<"sleep", "log_error">>)

\* else: logger.error("All attempts failed"); return None
exhausted(trace) == FetchReturn(None, Append(trace, "log_error"))

\* the first handler written as `except Exception`: every error is retried
caught_as_request_exception_any(o) == o.http \in {"reqexc", "exc"}

\* except requests.exceptions.RequestException as e
caught_as_request_exception(o) == o.http = "reqexc"

\* for attempt in range(max_retries): try ... except ... ; return None
RECURSIVE fetch_loop(_, _, _, _, _, _)
fetch_loop(attempt, url, use_selenium, max_retries, script, trace) ==
    IF attempt >= max_retries THEN FetchReturn(None, trace)
    ELSE LET o == script[attempt + 1]
             t1 == Append(trace, "attempt")
             t2 == IF use_selenium /\ o.sel = "error"
                   THEN Append(t1, "log_error") ELSE t1
         IN  IF use_selenium /\ o.sel = "page" THEN FetchReturn(Str(url), t1)
             ELSE IF o.http = "ok" THEN FetchReturn(Str(url), t2)
             ELSE IF o.http = "empty" THEN FetchReturn(Str(EmptyPage), t2)
             ELSE IF caught_as_request_exception(o)
                  THEN IF attempt < max_retries - 1
                       THEN fetch_loop(attempt + 1, url, use_selenium, max_retries,
                                       script, t2 \o <<"log_warning", "sleep">>)
                       ELSE exhausted(Append(t2, "log_warning"))
             ELSE FetchReturn(None, Append(t2, "log_error"))

get_page_content(url, use_selenium, max_retries, script) ==
    fetch_loop(0, url, use_selenium, max_retries, script, <<>>)

Count(seq, e) == Cardinality({i \in 1..Len(seq) : seq[i] = e})

(***************************************************************************)
(* extract_ft_articles.  Pages[p] lists the teasers of page p; a source's  *)
(* page is chosen by its position in the configuration.                    *)
(***************************************************************************)
Pages == << <<1, 3, 5>>, <<2, 6>>, <<6, 1, 4, 1>>, <<>> >>

\* link.startswith('https://www.ft.com/') and len(title) >= 10
extractable(t) ==
    /\ startswith(Teasers[t].url, FT_PREFIX)
    /\ Len(Teasers[t].title) >= MinTitleLen

\* per page, the teasers that pass both checks, in page order
kept_teasers == [i \in 1..Len(Pages) |-> SelectSeq(Pages[i], extractable)]

\* the articles list built from a parsed page
parse_page(p, s) ==
    LET kept == kept_teasers[(p % Len(Pages)) + 1]
    IN  [i \in 1..Len(kept) |-> Article(s, kept[i])]

\* extract_ft_articles after the fetch: if not content: return [] ; else
\* parse the page (parse = "raise" when the HTML parser throws)
handle_content(content, s, parse) ==
    IF falsy(content) THEN [articles |-> <<>>, raised |-> FALSE]
    ELSE IF parse = "raise" THEN [articles |-> <<>>, raised |-> TRUE]
    ELSE [articles |-> parse_page(content.text, s), raised |-> FALSE]

ParseOutcomes == {"ok", "raise"}

extract_ft_articles(s, script, parse) ==
    LET f == get_page_content(s, TRUE, DefaultMaxRetries, script)
        h == handle_content(f.ret, s, parse)
    IN  [articles |-> h.articles, raised |-> h.raised, trace |-> f.trace,
         failed |-> f.ret = None \/ h.raised]

\* except Exception: the error is not logged
scrape_source_parallel_silent(s, script, parse) ==
    LET e == extract_ft_articles(s, script, parse)
    IN  [articles |-> IF e.raised THEN <<>> ELSE e.articles,
         logged_error |-> FALSE]

\* try: extract_ft_articles(...)  except Exception: logger.error; return []
scrape_source_parallel(s, script, parse) ==
    LET e == extract_ft_articles(s, script, parse)
    IN  [articles |-> IF e.raised THEN <<>> ELSE e.articles,
         logged_error |-> e.raised \/ Count(e.trace, "log_error") > 0]

(***************************************************************************)
(* scrape_all_sources.                                                     *)
(***************************************************************************)
Min(a, b) == IF a < b THEN a ELSE b

\* the pool is as wide as the source list
max_workers_unbounded == NAdditional

\* max_workers = min(3, len(sources_to_scrape))
max_workers == Min(PoolLimit, NAdditional)

Running == {s \in AdditionalSources : tstate[s] = "running"}

\* what the network does to the fetches of one run
Always(o) == [i \in 1..(DefaultMaxRetries + 1) |-> o]
RunScripts ==
    { Always([sel |-> "page", http |-> "ok"]),
      Always([sel |-> "none", http |-> "reqexc"]),
      [Always([sel |-> "none", http |-> "ok"]) EXCEPT ![1] = [sel |-> "error", http |-> "reqexc"]],
      Always([sel |-> "none", http |-> "exc"]) }

\* (min_articles, max_articles) of the runs explored
RunBounds == { <<1, 1>> }

NoFetchIn == [url |-> MainSource, use_selenium |-> FALSE, max_retries |-> 0, script |-> <<>>]
NoFetchOut == [stage |-> "idle", ret |-> None, raised |-> FALSE, trace |-> <<>>,
               articles |-> <<>>, parse_raised |-> FALSE]

Init ==
    /\ pc = "main"
    /\ \E b \in RunBounds : min_articles = b[1] /\ max_articles = b[2]
    /\ tstate = [s \in AdditionalSources |-> "new"]
    /\ result = [s \in AdditionalSources |-> <<>>]
    /\ outcome = [s \in Sources |-> "pending"]
    /\ completed = <<>>
    /\ collected = {}
    /\ all_articles = <<>>
    /\ unique_articles = <<>>
    /\ filtered_articles = <<>>
    /\ articles = <<>>
    /\ returned = <<>>
    /\ warnings = <<>>
    /\ errors = {}
    /\ keywords = RELEVANT_KEYWORDS
    /\ driver_page = EmptyPage
    /\ session_headers = InitialAgent
    /\ tpos = [s \in AdditionalSources |-> IdlePos]
    /\ page_content = [s \in AdditionalSources |-> None]
    /\ fetch_in = NoFetchIn
    /\ fetch_out = NoFetchOut

\* main_source = SOURCES.get('ft_technology'); extract_ft_articles(...) outside
\* any try: an exception leaves scrape_all_sources
ScrapeMain ==
    /\ pc = "main"
    /\ \E script \in RunScripts, parse \in ParseOutcomes :
        LET e == extract_ft_articles(MainSource, script, parse) IN
        /\ outcome' = [outcome EXCEPT ![MainSource] = IF e.failed THEN "failed" ELSE "ok"]
        /\ errors' = IF Count(e.trace, "log_error") > 0
                     THEN errors \cup {MainSource} ELSE errors
        /\ all_articles' = IF e.raised THEN all_articles ELSE all_articles \o e.articles
        /\ pc' = IF e.raised THEN "raised" ELSE "submit"
    /\ UNCHANGED <<keywords, driver_page, session_headers, tpos, page_content,
                   min_articles, max_articles, tstate, result, completed, collected,
                   unique_articles, filtered_articles, articles, returned, warnings,
                   fetch_in, fetch_out>>

\* future_to_source = {executor.submit(...): source_config for ...}: every
\* source is queued, in the order of ADDITIONAL_SOURCES
SubmitAll ==
    /\ pc = "submit"
    /\ tstate' = [s \in AdditionalSources |-> "queued"]
    /\ pc' = "collect"
    /\ UNCHANGED <<keywords, driver_page, session_headers, tpos, page_content,
                   min_articles, max_articles, result, outcome, completed, collected,
                   all_articles, unique_articles, filtered_articles, articles,
                   returned, warnings, errors, fetch_in, fetch_out>>

\* a free worker thread takes the oldest queued work item
StartTask(s) ==
    /\ tstate[s] = "queued"
    /\ \A t \in AdditionalSources : t < s => tstate[t] # "queued"
    /\ Cardinality(Running) < max_workers
    /\ tstate' = [tstate EXCEPT ![s] = "running"]
    /\ UNCHANGED <<keywords, driver_page, session_headers, tpos, page_content,
                   pc, min_articles, max_articles, result, outcome, completed,
                   collected, all_articles, unique_articles, filtered_articles,
                   articles, returned, warnings, errors, fetch_in, fetch_out>>

\* what a pooled task can end with, per source: the list
\* scrape_source_parallel returns, whether it logged an error and whether the
\* extraction failed, over every network script and parser outcome
TaskOutcomes ==
    [s \in AdditionalSources |->
        { [articles |-> scrape_source_parallel(s, script, parse).articles,
           logged_error |-> scrape_source_parallel(s, script, parse).logged_error,
           failed |-> extract_ft_articles(s, script, parse).failed] :
          script \in RunScripts, parse \in ParseOutcomes }]

\* the worker itself extends all_articles with its articles, next to setting
\* the future
TaskFinish_extending(s) ==
    /\ tstate[s] = "running"
    /\ \E r \in TaskOutcomes[s] :
        /\ result' = [result EXCEPT ![s] = r.articles]
        /\ all_articles' = all_articles \o r.articles
        /\ outcome' = [outcome EXCEPT ![s] = IF r.failed THEN "failed" ELSE "ok"]
        /\ errors' = IF r.logged_error THEN errors \cup {s} ELSE errors
    /\ tstate' = [tstate EXCEPT ![s] = "done"]
    /\ completed' = Append(completed, s)
    /\ UNCHANGED <<keywords, driver_page, session_headers, tpos, page_content,
                   pc, min_articles, max_articles, collected, unique_articles,
                   filtered_articles, articles, returned, warnings, fetch_in,
                   fetch_out>>

\* the worker runs scrape_source_parallel(source_config) and sets the future.
\* The task is taken as one step that fetches the page of its own url; what
\* the tasks do to each other through self.driver is in SpecDriver.
TaskFinish(s) ==
    /\ tstate[s] = "running"
    /\ \E r \in TaskOutcomes[s] :
        /\ result' = [result EXCEPT ![s] = r.articles]
        /\ outcome' = [outcome EXCEPT ![s] = IF r.failed THEN "failed" ELSE "ok"]
        /\ errors' = IF r.logged_error THEN errors \cup {s} ELSE errors
    /\ tstate' = [tstate EXCEPT ![s] = "done"]
    /\ completed' = Append(completed, s)
    /\ UNCHANGED <<keywords, driver_page, session_headers, tpos, page_content,
                   pc, min_articles, max_articles, collected, all_articles,
                   unique_articles, filtered_articles, articles, returned, warnings,
                   fetch_in, fetch_out>>

\* all_articles = articles + all_articles written for all_articles.extend:
\* the list of the task is put in front
Collect_prepending ==
    /\ pc = "collect"
    /\ completed # <<>>
    /\ all_articles' = result[Head(completed)] \o all_articles
    /\ collected' = collected \cup {Head(completed)}
    /\ completed' = Tail(completed)
    /\ pc' = "pace"
    /\ UNCHANGED <<keywords, driver_page, session_headers, tpos, page_content,
                   min_articles, max_articles, tstate, result, outcome,
                   unique_articles, filtered_articles, articles, returned, warnings,
                   errors, fetch_in, fetch_out>>

\* for future in as_completed(...): articles = future.result();
\* all_articles.extend(articles).  as_completed yields the futures in the
\* order in which they finished.
Collect ==
    /\ pc = "collect"
    /\ completed # <<>>
    /\ all_articles' = all_articles \o result[Head(completed)]
    /\ collected' = collected \cup {Head(completed)}
    /\ completed' = Tail(completed)
    /\ pc' = "pace"
    /\ UNCHANGED <<keywords, driver_page, session_headers, tpos, page_content,
                   min_articles, max_articles, tstate, result, outcome,
                   unique_articles, filtered_articles, articles, returned, warnings,
                   errors, fetch_in, fetch_out>>

\* time.sleep(random.uniform(rate_limit_min, rate_limit_max)) returns
PaceEnd ==
    /\ pc = "pace"
    /\ pc' = "collect"
    /\ UNCHANGED <<keywords, driver_page, session_headers, tpos, page_content,
                   min_articles, max_articles, tstate, result, outcome, completed,
                   collected, all_articles, unique_articles, filtered_articles,
                   articles, returned, warnings, errors, fetch_in, fetch_out>>

\* the loop is left as soon as no finished future waits, without as_completed
\* having yielded every future
LeavePool_early ==
    /\ pc = "collect"
    /\ completed = <<>>
    /\ pc' = "dedupe"
    /\ UNCHANGED <<keywords, driver_page, session_headers, tpos, page_content,
                   min_articles, max_articles, tstate, result, outcome, completed,
                   collected, all_articles, unique_articles, filtered_articles,
                   articles, returned, warnings, errors, fetch_in, fetch_out>>

\* as_completed is exhausted; the with block shuts the executor down
LeavePool ==
    /\ pc = "collect"
    /\ collected = AdditionalSources
    /\ pc' = "dedupe"
    /\ UNCHANGED <<keywords, driver_page, session_headers, tpos, page_content,
                   min_articles, max_articles, tstate, result, outcome, completed,
                   collected, all_articles, unique_articles, filtered_articles,
                   articles, returned, warnings, errors, fetch_in, fetch_out>>

\* Remove duplicates based on URL
Dedupe ==
    /\ pc = "dedupe"
    /\ unique_articles' = remove_duplicates(all_articles)
    /\ pc' = "filter"
    /\ UNCHANGED <<keywords, driver_page, session_headers, tpos, page_content,
                   min_articles, max_articles, tstate, result, outcome, completed,
                   collected, all_articles, filtered_articles, articles, returned,
                   warnings, errors, fetch_in, fetch_out>>

\* filtered_articles = self.filter_articles(unique_articles)
Filter ==
    /\ pc = "filter"
    /\ filtered_articles' = filter_articles(unique_articles, keywords)
    /\ pc' = "bound"
    /\ UNCHANGED <<keywords, driver_page, session_headers, tpos, page_content,
                   min_articles, max_articles, tstate, result, outcome, completed,
                   collected, all_articles, unique_articles, articles, returned,
                   warnings, errors, fetch_in, fetch_out>>

\* the minimum warning, the maximum cut, self.articles = ..., return
Bound ==
    /\ pc = "bound"
    /\ warnings' = IF too_few(filtered_articles, min_articles)
                   THEN Append(warnings, [got |-> Len(filtered_articles),
                                          need |-> min_articles])
                   ELSE warnings
    /\ filtered_articles' = limit_articles(filtered_articles, max_articles)
    /\ articles' = filtered_articles'
    /\ returned' = filtered_articles'
    /\ pc' = "done"
    /\ UNCHANGED <<keywords, driver_page, session_headers, tpos, page_content,
                   min_articles, max_articles, tstate, result, outcome, completed,
                   collected, all_articles, unique_articles, errors, fetch_in,
                   fetch_out>>

\* KeyboardInterrupt raised in the thread running scrape_all_sources.  It is
\* no Exception, so no handler of the method catches it: the method is left
\* without its return and without the assignment to self.articles, and
\* main() prints "Scraping interrupted by user".  The workers of a pool
\* that is being left still run the work items they were given.
Interrupt ==
    /\ pc \in {"main", "submit", "collect", "pace", "dedupe", "filter", "bound"}
    /\ pc' = "interrupted"
    /\ UNCHANGED <<keywords, driver_page, session_headers, tpos, page_content,
                   min_articles, max_articles, tstate, result, outcome, completed,
                   collected, all_articles, unique_articles, filtered_articles,
                   articles, returned, warnings, errors, fetch_in, fetch_out>>

Next ==
    \/ ScrapeMain
    \/ SubmitAll
    \/ \E s \in AdditionalSources : StartTask(s)
    \/ \E s \in AdditionalSources : TaskFinish(s)
    \/ Collect
    \/ PaceEnd
    \/ LeavePool
    \/ Dedupe
    \/ Filter
    \/ Bound
    \/ Interrupt

Spec == Init /\ [][Next]_vars

(***************************************************************************)
(* The stages after the pool, on every merged sequence: de-duplication,    *)
(* filter and cardinality checks applied to any all_articles the sources   *)
(* can produce, for any (min_articles, max_articles) the constructor or    *)
(* the command line can pass.                                              *)
(***************************************************************************)
BoundedSeqs(S, n) == UNION {[1..k -> S] : k \in 0..n}

\* articles extract_ft_articles can emit (FT link, title of 10 or more)
PipeArticles ==
    {Article(0, 1), Article(1, 2), Article(0, 3), Article(1, 6), Article(0, 7)}

InitPipeline ==
    /\ pc = "dedupe"
    /\ min_articles \in 0..MaxArg
    /\ max_articles \in (-1)..MaxArg
    /\ all_articles \in BoundedSeqs(PipeArticles, MaxLen)
    /\ tstate = [s \in AdditionalSources |-> "done"]
    /\ result = [s \in AdditionalSources |-> <<>>]
    /\ outcome = [s \in Sources |-> "ok"]
    /\ completed = <<>>
    /\ collected = AdditionalSources
    /\ unique_articles = <<>>
    /\ filtered_articles = <<>>
    /\ articles = <<>>
    /\ returned = <<>>
    /\ warnings = <<>>
    /\ errors = {}
    /\ keywords = RELEVANT_KEYWORDS
    /\ driver_page = EmptyPage
    /\ session_headers = InitialAgent
    /\ tpos = [s \in AdditionalSources |-> IdlePos]
    /\ page_content = [s \in AdditionalSources |-> None]
    /\ fetch_in = NoFetchIn
    /\ fetch_out = NoFetchOut

NextPipeline ==
    \/ Dedupe
    \/ Filter
    \/ Bound

SpecPipeline == InitPipeline /\ [][NextPipeline]_vars

(***************************************************************************)
(* One call of filter_articles, on every articles list of up to            *)
(* MaxFilterLen records (any teaser, repetitions included) and under every *)
(* keyword list of KeywordLists.                                           *)
(***************************************************************************)
FilterArticles == {Article(MainSource, t) : t \in TeaserIds}

InitFilter ==
    /\ pc = "filter"
    /\ keywords \in KeywordLists
    /\ unique_articles \in BoundedSeqs(FilterArticles, MaxFilterLen)
    /\ all_articles = unique_articles
    /\ min_articles = 0
    /\ max_articles = MaxFilterLen
    /\ tstate = [s \in AdditionalSources |-> "done"]
    /\ result = [s \in AdditionalSources |-> <<>>]
    /\ outcome = [s \in Sources |-> "ok"]
    /\ completed = <<>>
    /\ collected = AdditionalSources
    /\ filtered_articles = <<>>
    /\ articles = <<>>
    /\ returned = <<>>
    /\ warnings = <<>>
    /\ errors = {}
    /\ driver_page = EmptyPage
    /\ session_headers = InitialAgent
    /\ tpos = [s \in AdditionalSources |-> IdlePos]
    /\ page_content = [s \in AdditionalSources |-> None]
    /\ fetch_in = NoFetchIn
    /\ fetch_out = NoFetchOut

NextFilter == Filter

SpecFilter == InitFilter /\ [][NextFilter]_vars

(***************************************************************************)
(* The workers inside get_page_content(url, use_selenium=True), statement  *)
(* by statement: the max_workers tasks the pool runs at once all use       *)
(* self.driver and self.session.                                           *)
(***************************************************************************)
DriverTasks == 1..max_workers

InitDriver ==
    /\ pc = "collect"
    /\ tstate = [s \in AdditionalSources |->
                    IF s \in DriverTasks THEN "running" ELSE "queued"]
    /\ tpos = [s \in AdditionalSources |->
                    IF s \in DriverTasks THEN Pos("get", 0) ELSE IdlePos]
    /\ page_content = [s \in AdditionalSources |-> None]
    /\ driver_page = MainSource
    /\ session_headers = InitialAgent
    /\ all_articles = parse_page(MainSource, MainSource)
    /\ outcome = [s \in Sources |-> IF s = MainSource THEN "ok" ELSE "pending"]
    /\ \E b \in RunBounds : min_articles = b[1] /\ max_articles = b[2]
    /\ result = [s \in AdditionalSources |-> <<>>]
    /\ completed = <<>>
    /\ collected = {}
    /\ unique_articles = <<>>
    /\ filtered_articles = <<>>
    /\ articles = <<>>
    /\ returned = <<>>
    /\ warnings = <<>>
    /\ errors = {}
    /\ keywords = RELEVANT_KEYWORDS
    /\ fetch_in = NoFetchIn
    /\ fetch_out = NoFetchOut

\* get_page_with_selenium: self.driver.get(url) loads the page of the url
\* into the one browser, or raises; then the error is logged, None is
\* returned and get_page_content goes on to the HTTP request
DriverGet(s) ==
    /\ tstate[s] = "running"
    /\ tpos[s].at = "get"
    /\ \/ /\ driver_page' = s
          /\ tpos' = [tpos EXCEPT ![s] = Pos("loaded", tpos[s].attempt)]
          /\ errors' = errors
       \/ /\ driver_page' = driver_page
          /\ tpos' = [tpos EXCEPT ![s] = Pos("request", tpos[s].attempt)]
          /\ errors' = errors \cup {s}
    /\ UNCHANGED <<keywords, session_headers, page_content, pc, min_articles,
                   max_articles, tstate, result, outcome, completed, collected,
                   all_articles, unique_articles, filtered_articles, articles,
                   returned, warnings, fetch_in, fetch_out>>

\* get_page_with_selenium after the wait, the scroll and time.sleep(2):
\* return self.driver.page_source, the page the browser shows now;
\* get_page_content returns it
PageSource(s) ==
    /\ tstate[s] = "running"
    /\ tpos[s].at = "loaded"
    /\ page_content' = [page_content EXCEPT ![s] = Str(driver_page)]
    /\ tpos' = [tpos EXCEPT ![s] = Pos("parse", tpos[s].attempt)]
    /\ UNCHANGED <<keywords, driver_page, session_headers, pc, min_articles,
                   max_articles, tstate, result, outcome, completed, collected,
                   all_articles, unique_articles, filtered_articles, articles,
                   returned, warnings, errors, fetch_in, fetch_out>>

\* update_session_headers() writes a random User-Agent into the headers of
\* the one session; response = self.session.get(url, ...) then
\*   "ok"      returns response.text, the page of the url
\*   "reqexc"  RequestException: sleep and try again, or, at the last
\*             attempt, log the error and return None
\*   "exc"     any other Exception: log the error and return None
SessionGet(s) ==
    /\ tstate[s] = "running"
    /\ tpos[s].at = "request"
    /\ session_headers' \in USER_AGENTS
    /\ \E http \in {"ok", "reqexc", "exc"} :
         LET last == ~(tpos[s].attempt < DefaultMaxRetries - 1) IN
         IF http = "ok"
         THEN /\ page_content' = [page_content EXCEPT ![s] = Str(s)]
              /\ tpos' = [tpos EXCEPT ![s] = Pos("parse", tpos[s].attempt)]
              /\ errors' = errors
         ELSE IF http = "reqexc" /\ ~last
         THEN /\ page_content' = page_content
              /\ tpos' = [tpos EXCEPT ![s] = Pos("get", tpos[s].attempt + 1)]
              /\ errors' = errors
         ELSE /\ page_content' = [page_content EXCEPT ![s] = None]
              /\ tpos' = [tpos EXCEPT ![s] = Pos("parse", tpos[s].attempt)]
              /\ errors' = errors \cup {s}
    /\ UNCHANGED <<keywords, driver_page, pc, min_articles, max_articles, tstate,
                   result, outcome, completed, collected, all_articles,
                   unique_articles, filtered_articles, articles, returned,
                   warnings, fetch_in, fetch_out>>

\* extract_ft_articles with the content it got: [] if there is none, else
\* the articles of the parsed page; scrape_source_parallel returns them and
\* the future is set
ParseContent(s) ==
    /\ tstate[s] = "running"
    /\ tpos[s].at = "parse"
    /\ result' = [result EXCEPT ![s] = handle_content(page_content[s], s, "ok").articles]
    /\ outcome' = [outcome EXCEPT ![s] =
                      IF falsy(page_content[s]) THEN "failed" ELSE "ok"]
    /\ tpos' = [tpos EXCEPT ![s] = IdlePos]
    /\ tstate' = [tstate EXCEPT ![s] = "done"]
    /\ completed' = Append(completed, s)
    /\ UNCHANGED <<keywords, driver_page, session_headers, page_content, pc,
                   min_articles, max_articles, collected, all_articles,
                   unique_articles, filtered_articles, articles, returned,
                   warnings, errors, fetch_in, fetch_out>>

NextDriver ==
    \/ \E s \in AdditionalSources : DriverGet(s)
    \/ \E s \in AdditionalSources : PageSource(s)
    \/ \E s \in AdditionalSources : SessionGet(s)
    \/ \E s \in AdditionalSources : ParseContent(s)

SpecDriver == InitDriver /\ [][NextDriver]_vars

(***************************************************************************)
(* One call of get_page_content, for every max_retries and every network   *)
(* script, followed by what extract_ft_articles does with the content.     *)
(***************************************************************************)
\* the page fetched: the page of the first additional source
FetchUrl == 1

InitFetch ==
    /\ \E m \in 0..MaxRetriesBound, u \in BOOLEAN :
         \E sc \in [1..(m + 1) -> AttemptOutcomes] :
            fetch_in = [url |-> FetchUrl, use_selenium |-> u, max_retries |-> m,
                        script |-> sc]
    /\ fetch_out = [NoFetchOut EXCEPT !.stage = "call"]
    /\ pc = "idle"
    /\ min_articles = 0
    /\ max_articles = 0
    /\ tstate = [s \in AdditionalSources |-> "new"]
    /\ result = [s \in AdditionalSources |-> <<>>]
    /\ outcome = [s \in Sources |-> "pending"]
    /\ completed = <<>>
    /\ collected = {}
    /\ all_articles = <<>>
    /\ unique_articles = <<>>
    /\ filtered_articles = <<>>
    /\ articles = <<>>
    /\ returned = <<>>
    /\ warnings = <<>>
    /\ errors = {}
    /\ keywords = RELEVANT_KEYWORDS
    /\ driver_page = EmptyPage
    /\ session_headers = InitialAgent
    /\ tpos = [s \in AdditionalSources |-> IdlePos]
    /\ page_content = [s \in AdditionalSources |-> None]

\* content = self.get_page_content(url, use_selenium, max_retries)
FetchPage ==
    /\ fetch_out.stage = "call"
    /\ LET f == get_page_content(fetch_in.url, fetch_in.use_selenium,
                                 fetch_in.max_retries, fetch_in.script)
       IN  fetch_out' = [fetch_out EXCEPT !.stage = "fetched", !.ret = f.ret,
                                          !.raised = f.raised, !.trace = f.trace]
    /\ UNCHANGED <<keywords, driver_page, session_headers, tpos, page_content,
                   pc, min_articles, max_articles, tstate, result, outcome,
                   completed, collected, all_articles, unique_articles,
                   filtered_articles, articles, returned, warnings, errors,
                   fetch_in>>

\* if not content: return [] ... return articles
HandleContent ==
    /\ fetch_out.stage = "fetched"
    /\ ~fetch_out.raised
    /\ \E parse \in ParseOutcomes :
         LET h == handle_content(fetch_out.ret, fetch_in.url, parse)
         IN  fetch_out' = [fetch_out EXCEPT !.stage = "extracted",
                                            !.articles = h.articles,
                                            !.parse_raised = h.raised]
    /\ UNCHANGED <<keywords, driver_page, session_headers, tpos, page_content,
                   pc, min_articles, max_articles, tstate, result, outcome,
                   completed, collected, all_articles, unique_articles,
                   filtered_articles, articles, returned, warnings, errors,
                   fetch_in>>

NextFetch ==
    \/ FetchPage
    \/ HandleContent

SpecFetch == InitFetch /\ [][NextFetch]_vars

(***************************************************************************)
(* Properties.                                                             *)
(***************************************************************************)
AfterDedupe == pc \in {"filter", "bound", "done"}
AfterPool == pc \in {"dedupe", "filter", "bound", "done"}

Urls(seq) == {url_of(seq[i]) : i \in 1..Len(seq)}
FromSource(seq, s) == SelectSeq(seq, LAMBDA a : a.source = s)

\* the per-source results joined in the order of ADDITIONAL_SOURCES
RECURSIVE ResultsUpTo(_)
ResultsUpTo(n) == IF n = 0 THEN <<>> ELSE ResultsUpTo(n - 1) \o result[n]

DescriptorOrderMerge == FromSource(all_articles, MainSource) \o ResultsUpTo(NAdditional)

\* C1: order determinism.  For fixed per-source record sequences the
\* de-duplicated sequence is the same whatever order the pooled tasks complete
\* in; the tasks can complete in the configured order, so it is always the
\* de-duplication of the per-source sequences joined in that order.
C1_OrderDeterminism ==
    AfterDedupe => unique_articles = remove_duplicates(DescriptorOrderMerge)

\* C2: descriptor-order precedence.  When several sources returned a record
\* with the same url, the surviving record comes from the source that is
\* earliest in the configured order.
C2_DescriptorPrecedence ==
    AfterDedupe =>
        \A i \in 1..Len(unique_articles), k \in 1..Len(all_articles) :
            url_of(all_articles[k]) = url_of(unique_articles[i])
                => unique_articles[i].source <= all_articles[k].source

FirstIndex(u) ==
    CHOOSE k \in 1..Len(all_articles) :
        /\ url_of(all_articles[k]) = u
        /\ \A m \in 1..(k - 1) : url_of(all_articles[m]) # u

\* C3: de-duplication uniqueness.  After the step no two survivors share a
\* url, every url of the merged sequence occurs among the survivors, each
\* survivor is the first occurrence of its url in the merged sequence, and the
\* survivors keep their merged-sequence order.
C3_DedupUniqueness ==
    AfterDedupe =>
        /\ \A i, j \in 1..Len(unique_articles) :
              i # j => url_of(unique_articles[i]) # url_of(unique_articles[j])
        /\ Urls(unique_articles) = Urls(all_articles)
        /\ \A i \in 1..Len(unique_articles) :
              unique_articles[i] = all_articles[FirstIndex(url_of(unique_articles[i]))]
        /\ \A i, j \in 1..Len(unique_articles) :
              i < j => FirstIndex(url_of(unique_articles[i]))
                         < FirstIndex(url_of(unique_articles[j]))

\* a merged sequence with a repeated url, whose later occurrence (another
\* source, another title) was dropped while two survivors remain
C3_Witness ==
    /\ pc = "filter"
    /\ Len(unique_articles) >= 2
    /\ \E k \in 1..Len(all_articles) :
          /\ \A i \in 1..Len(unique_articles) : unique_articles[i] # all_articles[k]
          /\ \E m \in 1..(k - 1) : url_of(all_articles[m]) = url_of(all_articles[k])

\* C4: failure isolation.  Once the pool is left, a pooled source whose
\* extraction failed is named by an error entry and has no record in the
\* merged sequence, every pooled task has run to completion, and the records
\* of each succeeding source are all in the merged sequence.
C4_FailureIsolation ==
    AfterPool =>
        \A s \in AdditionalSources :
            /\ tstate[s] = "done"
            /\ outcome[s] \in {"ok", "failed"}
            /\ outcome[s] = "failed" =>
                  s \in errors /\ FromSource(all_articles, s) = <<>>
            /\ outcome[s] = "ok" =>
                  FromSource(all_articles, s) = parse_page(s, s)

\* source 1 failed, source 2 succeeded with its three records
C4_Witness ==
    /\ pc = "done"
    /\ outcome[1] = "failed"
    /\ 1 \in errors
    /\ outcome[2] = "ok"
    /\ Len(FromSource(all_articles, 2)) = 3
    /\ FromSource(all_articles, 1) = <<>>

(***************************************************************************)
(* Properties of get_page_content (SpecFetch).                             *)
(***************************************************************************)
Fetched == fetch_out.stage \in {"fetched", "extracted"}
Attempts == Count(fetch_out.trace, "attempt")

\* the attempt yields content / fails with a RequestException
Succeeds(o) == (fetch_in.use_selenium /\ o.sel = "page") \/ o.http \in {"ok", "empty"}
NetworkFails(o) == ~(fetch_in.use_selenium /\ o.sel = "page") /\ o.http = "reqexc"

\* at least one attempt was made and none of those made yielded content
AllAttemptsFailed ==
    /\ Attempts >= 1
    /\ \A i \in 1..Attempts : ~Succeeds(fetch_in.script[i])

\* C5: retry count.  The fetch is invoked once and retried up to max_retries
\* more times: when every attempt fails with a network error it has been
\* attempted max_retries + 1 times, and it stops at the first attempt that
\* succeeds.
C5_RetryCount ==
    Fetched =>
        /\ (\A i \in 1..(fetch_in.max_retries + 1) : NetworkFails(fetch_in.script[i]))
              => Attempts = fetch_in.max_retries + 1
        /\ \A k \in 1..(fetch_in.max_retries + 1) :
              (/\ Succeeds(fetch_in.script[k])
               /\ \A i \in 1..(k - 1) : NetworkFails(fetch_in.script[i]))
              => Attempts = k /\ fetch_out.ret.kind = "str"

C7_ConcurrencyBound ==
    /\ Cardinality(Running) <= PoolLimit
    /\ Cardinality(Running) <= NAdditional

\* the pool is full and a source waits in the queue
C7_Witness ==
    /\ Cardinality(Running) = PoolLimit
    /\ \E s \in AdditionalSources : tstate[s] = "queued"

(***************************************************************************)
(* Properties of the cardinality checks (SpecPipeline).                    *)
(***************************************************************************)
\* the filtered sequence before the maximum cut
Filtered == filter_articles(unique_articles, keywords)
Warned == warnings # <<>>

\* C8 as stated: for every (min_articles, max_articles) the returned
\* sequence is no longer than max_articles, and as long as the filtered one
\* when min_articles <= filtered length <= max_articles.
C8_Bounding ==
    pc = "done" =>
        /\ Len(returned) <= max_articles
        /\ (min_articles <= Len(Filtered) /\ Len(Filtered) <= max_articles)
              => Len(returned) = Len(Filtered)

\* C8 as amended: the same for every max_articles >= 0.
C8_BoundingNonNegative ==
    (pc = "done" /\ max_articles >= 0) =>
        /\ Len(returned) <= max_articles
        /\ (min_articles <= Len(Filtered) /\ Len(Filtered) <= max_articles)
              => Len(returned) = Len(Filtered)

\* three filtered records cut to max_articles = 2
C8_Witness ==
    /\ pc = "done"
    /\ max_articles = 2
    /\ Len(Filtered) = 3
    /\ Len(returned) = 2

\* C9 as stated: whenever the filtered count is below min_articles the
\* warning is emitted, all filtered records are returned unmodified and the
\* run does not fail.
C9_Insufficient ==
    /\ pc # "raised"
    /\ (pc = "done" /\ Len(Filtered) < min_articles) =>
          /\ warnings = <<[got |-> Len(Filtered), need |-> min_articles]>>
          /\ returned = Filtered

\* C9 as amended: whenever the filtered count is below min_articles the
\* warning is emitted and the run does not fail; the filtered records are
\* returned unmodified when their count does not exceed max_articles.
C9_InsufficientWithinMax ==
    /\ pc # "raised"
    /\ (pc = "done" /\ Len(Filtered) < min_articles) =>
          /\ warnings = <<[got |-> Len(Filtered), need |-> min_articles]>>
          /\ Len(Filtered) <= max_articles => returned = Filtered

\* two filtered records, three wanted: warned, both returned
C9_Witness ==
    /\ pc = "done"
    /\ Len(Filtered) = 2
    /\ min_articles = 3
    /\ max_articles = 3
    /\ warnings = <<[got |-> 2, need |-> 3]>>
    /\ returned = Filtered
    /\ articles = Filtered

\* C10 as stated: whenever the filtered count exceeds max_articles the
\* returned sequence is the first max_articles filtered records in order and
\* no insufficient-records warning is emitted.
C10_Truncation ==
    (pc = "done" /\ Len(Filtered) > max_articles) =>
        /\ returned = SubSeq(Filtered, 1, max_articles)
        /\ ~Warned

\* C10 as amended: whenever the filtered count exceeds a max_articles >= 0
\* the returned sequence is the first max_articles filtered records in order;
\* the warning is emitted exactly when the count is also below min_articles.
C10_TruncationNonNegative ==
    (pc = "done" /\ Len(Filtered) > max_articles /\ max_articles >= 0) =>
        /\ returned = SubSeq(Filtered, 1, max_articles)
        /\ Warned <=> Len(Filtered) < min_articles

\* three filtered records, max_articles = 2, min_articles = 1: the first two
\* are returned and nothing is warned
C10_Witness ==
    /\ pc = "done"
    /\ Len(Filtered) = 3
    /\ max_articles = 2
    /\ min_articles = 1
    /\ returned = <<Filtered[1], Filtered[2]>>
    /\ ~Warned

(***************************************************************************)
(* Inverted bounds (SpecPipeline).                                         *)
(***************************************************************************)
\* C11 as stated: when max_articles < min_articles the insufficient-records
\* warning never fires; with exactly max_articles records surviving the
\* filter the output has max_articles records and no warning.
C11_InvertedNeverWarns ==
    (pc = "done" /\ max_articles < min_articles) =>
        /\ ~Warned
        /\ Len(Filtered) = max_articles => Len(returned) = max_articles

\* C11 as amended: when max_articles < min_articles the warning fires
\* exactly when the filtered count is below min_articles; with exactly
\* max_articles records surviving the filter the output has those
\* max_articles records and the warning is emitted.
C11_InvertedWarnsBelowMin ==
    (pc = "done" /\ max_articles < min_articles) =>
        /\ Warned <=> Len(Filtered) < min_articles
        /\ Len(Filtered) = max_articles =>
              returned = Filtered /\ Len(returned) = max_articles /\ Warned

\* min_articles = 3, max_articles = 2, two records survive the filter: both
\* are returned and the warning "got 2, need 3" is emitted
C11_Witness ==
    /\ pc = "done"
    /\ min_articles = 3
    /\ max_articles = 2
    /\ Len(Filtered) = 2
    /\ returned = Filtered
    /\ warnings = <<[got |-> 2, need |-> 3]>>

(***************************************************************************)
(* Properties of filter_articles (SpecFilter).                             *)
(***************************************************************************)
\* the retention test of C12 on a teaser: some keyword occurs, compared
\* case-insensitively, in the title or in the summary; the title has
\* MinTitleLen characters or more; the url starts with FT_PREFIX
C12_Retained(t, kws) ==
    /\ \E keyword \in kws :
          \/ str_in(str_lower(keyword), str_lower(t.title))
          \/ str_in(str_lower(keyword), str_lower(t.summary))
    /\ Len(t.title) >= MinTitleLen
    /\ startswith(t.url, FT_PREFIX)

C12_RetainedTeasers ==
    [kws \in KeywordLists |-> {i \in TeaserIds : C12_Retained(Teasers[i], kws)}]

\* C12: filter_articles retains a record if and only if a keyword occurs,
\* compared case-insensitively, in its title or summary, its title has at
\* least 10 characters and its url starts with the required prefix, for
\* every record and every keyword list, upper-case keywords included.
C12_FilterPredicate ==
    pc = "bound" =>
        filtered_articles =
            SelectSeq(unique_articles,
                      LAMBDA a : a.teaser \in C12_RetainedTeasers[keywords])


\* sub can be obtained from seq by deleting elements
RECURSIVE IsSubsequence(_, _)
IsSubsequence(sub, seq) ==
    IF sub = <<>> THEN TRUE
    ELSE IF seq = <<>> THEN FALSE
    ELSE IF Head(sub) = Head(seq)
         THEN IsSubsequence(Tail(sub), Tail(seq))
         ELSE IsSubsequence(sub, Tail(seq))

\* C13: the output of filter_articles is a subsequence of its input, in the
\* same relative order, and the call leaves the input list as it was.
C13_FilterOrder ==
    [][pc = "filter" =>
          /\ IsSubsequence(filtered_articles', unique_articles)
          /\ unique_articles' = unique_articles]_vars

\* three records went in, the middle one was dropped, the other two came
\* out in their input order
C13_Witness ==
    /\ pc = "bound"
    /\ Len(unique_articles) = 3
    /\ unique_articles[1] # unique_articles[3]
    /\ filtered_articles = <<unique_articles[1], unique_articles[3]>>


(***************************************************************************)
(* Idempotence of the url de-duplication (SpecPipeline).                   *)
(***************************************************************************)
\* C14: the de-duplication applied to a sequence that is already its own
\* output returns that sequence unchanged, for every input sequence.
C14_DedupIdempotent ==
    AfterDedupe => remove_duplicates(unique_articles) = unique_articles

\* four records with repeated urls went in, two came out, and a second pass
\* over those two removes nothing
C14_Witness ==
    /\ pc = "filter"
    /\ Len(all_articles) = 4
    /\ Len(unique_articles) = 2
    /\ remove_duplicates(unique_articles) = unique_articles


(***************************************************************************)
(* Properties of the run when sources fail or the run is interrupted       *)
(* (Spec).                                                                 *)
(***************************************************************************)
\* no extraction made so far succeeded, the one of the main source included
NoSourceSucceeded ==
    /\ outcome[MainSource] = "failed"
    /\ \A s \in AdditionalSources : outcome[s] # "ok"

\* C15: when every source's extraction fails, scrape_all_sources does not
\* raise, and it returns an empty record set together with a warning and a
\* logged failure of every source.
C15_AllSourcesFailed ==
    NoSourceSucceeded =>
        /\ pc # "raised"
        /\ pc = "done" => /\ returned = <<>>
                          /\ Warned
                          /\ Sources \subseteq errors

\* C16: whatever each source's extraction meets (records, no records, a
\* failure), the main source included, no single source's failure makes
\* scrape_all_sources end by an exception instead of returning a result.
C16_RunCompletion == pc # "raised"

\* the best-effort result of the records collected so far
BestEffort ==
    limit_articles(filter_articles(remove_duplicates(all_articles), keywords),
                   max_articles)

\* C17: once an interrupt has ended the run after records of at least one
\* source were collected, self.articles and the value returned hold the
\* best-effort result built from the collected records.
C17_Cancellation ==
    (pc = "interrupted" /\ all_articles # <<>>) =>
        /\ articles = BestEffort
        /\ returned = BestEffort

\* C18: a queued task that has to wait for a worker (the tasks after the
\* first max_workers) does not start between a task's completion and the end
\* of the pacing delay that follows it: while a finished task waits to be
\* collected, or the delay after its collection runs, no such task goes
\* from queued to running.
C18_Pacing ==
    [][(\E s \in AdditionalSources :
            /\ s > max_workers
            /\ tstate[s] = "queued"
            /\ tstate'[s] = "running")
          => (pc # "pace" /\ completed = <<>>)]_vars


(***************************************************************************)
(* Writes to all_articles (Spec).                                          *)
(***************************************************************************)
\* the step appends the result of the oldest finished task, once, from the
\* thread that iterates as_completed
CollectsOne ==
    /\ pc = "collect"
    /\ completed # <<>>
    /\ Head(completed) \notin collected
    /\ tstate[Head(completed)] = "done"
    /\ collected' = collected \cup {Head(completed)}
    /\ all_articles' = all_articles \o result[Head(completed)]

\* C20: the writes to all_articles are serialized, one per completed task:
\* every step that writes to it is a step of the thread running
\* scrape_all_sources, either for the main source before any task exists or
\* for exactly one finished task that was not collected before, and when the
\* pool is left every task has been collected.
C20_SerializedCollection ==
    /\ [][(all_articles' # all_articles \/ collected' # collected) =>
             \/ pc = "main" /\ collected' = collected
             \/ CollectsOne]_vars
    /\ [](AfterPool => collected = AdditionalSources)

\* two results have been collected, one after the other, while another task
\* is still running and a finished one waits its turn
C20_Witness ==
    /\ pc = "pace"
    /\ Cardinality(collected) = 2
    /\ \A s \in collected : result[s] # <<>>
    /\ Running # {}
    /\ completed # <<>>
    /\ \A s \in collected : FromSource(all_articles, s) = result[s]


(***************************************************************************)
(* Independence of the running tasks (SpecDriver).                         *)
(***************************************************************************)
\* C19: under every interleaving of the running tasks, the page content a
\* task got, and parses, is the content fetched for the url of its own
\* source: none reads a page a sibling task loaded.
C19_TaskIndependence ==
    \A s \in AdditionalSources :
        page_content[s].kind = "str" => page_content[s].text = s


(***************************************************************************)
(* Order of the stages of a run (Spec).                                    *)
(***************************************************************************)
\* the order in which the thread running scrape_all_sources may move on
StageOrder ==
    { <<"main", "submit">>, <<"submit", "collect">>, <<"collect", "pace">>,
      <<"pace", "collect">>, <<"collect", "dedupe">>, <<"dedupe", "filter">>,
      <<"filter", "bound">>, <<"bound", "done">> }

\* C21: the stages run in strict sequence dispatch, dedupe, filter, bound.
\* The de-duplication does not start before every extraction task has
\* completed and its records have been collected, the filter gets the
\* de-duplicated records only and the bounding the filtered records only.
C21_StageOrdering ==
    /\ [][(pc' # pc /\ pc' \notin {"raised", "interrupted"})
             => <<pc, pc'>> \in StageOrder]_vars
    /\ [](AfterPool =>
             /\ \A s \in AdditionalSources :
                   /\ tstate[s] = "done"
                   /\ s \in collected
                   /\ FromSource(all_articles, s) = result[s]
             /\ completed = <<>>)
    /\ [](pc \in {"filter", "bound"} =>
             unique_articles = remove_duplicates(all_articles))
    /\ [](pc = "bound" =>
             filtered_articles = filter_articles(unique_articles, keywords))
    /\ [](pc = "done" =>
             returned = limit_articles(
                 filter_articles(remove_duplicates(all_articles), keywords),
                 max_articles))

\* the bounding is about to run on a filtered sequence that is shorter than
\* the de-duplicated one, itself shorter than the merged one, and the last
\* task to finish returned records
C21_Witness ==
    /\ pc = "bound"
    /\ Len(filtered_articles) < Len(unique_articles)
    /\ Len(unique_articles) < Len(all_articles)
    /\ filtered_articles # <<>>
    /\ \E s \in AdditionalSources :
          /\ result[s] # <<>>
          /\ all_articles[Len(all_articles)].source = s


(***************************************************************************)
(* Backoff and short circuit of get_page_content (SpecFetch).              *)
(***************************************************************************)
\* the positions of the attempts in the trace of the call
AttemptAt == {i \in 1..Len(fetch_out.trace) : fetch_out.trace[i] = "attempt"}
SleepAt == {i \in 1..Len(fetch_out.trace) : fetch_out.trace[i] = "sleep"}

\* C22: a backoff sleep occurs between every two consecutive attempts, the
\* earlier of which failed with a network error, and none occurs after the
\* last attempt, whether it failed or succeeded.
C22_BackoffPlacement ==
    Fetched =>
        /\ \A i, j \in AttemptAt :
              (i < j /\ \A k \in AttemptAt : ~(i < k /\ k < j)) =>
                 /\ Cardinality({k \in SleepAt : i < k /\ k < j}) = 1
                 /\ NetworkFails(fetch_in.script[Cardinality({k \in AttemptAt : k <= i})])
        /\ \A k \in SleepAt : \E j \in AttemptAt : k < j
        /\ \A k \in 1..Attempts :
              (NetworkFails(fetch_in.script[k]) /\ k < fetch_in.max_retries) =>
                 Cardinality(SleepAt) >= k

\* three network failures with max_retries = 3: a sleep after the first and
\* after the second attempt, none after the third
C22_Witness ==
    /\ Fetched
    /\ fetch_in.max_retries = 3
    /\ ~fetch_in.use_selenium
    /\ fetch_out.trace = <<"attempt", "log_warning", "sleep",
                           "attempt", "log_warning", "sleep",
                           "attempt", "log_warning", "log_error">>


\* the attempt fails with an error that is no RequestException
FailsUnexpectedly(o) == ~(fetch_in.use_selenium /\ o.sel = "page") /\ o.http = "exc"

\* C23: an attempt that fails with an error that is no request error ends
\* the fetch at once with None: it is the last attempt made, whatever
\* max_retries is, and no backoff sleep follows it.
C23_UnexpectedShortCircuit ==
    Fetched =>
        \A k \in 1..Attempts :
            FailsUnexpectedly(fetch_in.script[k]) =>
                /\ Attempts = k
                /\ fetch_out.ret = None
                /\ ~fetch_out.raised
                /\ Cardinality(SleepAt) = k - 1
                /\ fetch_out.trace[Len(fetch_out.trace)] = "log_error"

\* max_retries = 3 and the first attempt meets an unexpected error: one
\* attempt, one logged error, no sleep, None
C23_Witness ==
    /\ Fetched
    /\ fetch_in.max_retries = 3
    /\ ~fetch_in.use_selenium
    /\ fetch_in.script[1].http = "exc"
    /\ fetch_out.trace = <<"attempt", "log_error">>
    /\ fetch_out.ret = None


(***************************************************************************)
(* Precedence of the main source (Spec).                                   *)
(***************************************************************************)
\* C24: every record of the main source precedes every record of the
\* additional sources in the merged sequence, and for a url the main source
\* returned the record that survives the de-duplication is the main
\* source's, whatever the order in which the tasks ran and finished.
C24_MainSourcePrecedence ==
    /\ \A i, j \in 1..Len(all_articles) :
          (all_articles[i].source = MainSource /\ all_articles[j].source # MainSource)
             => i < j
    /\ AfterDedupe =>
          \A k \in 1..Len(unique_articles) :
             url_of(unique_articles[k]) \in Urls(FromSource(all_articles, MainSource))
                => unique_articles[k].source = MainSource

\* two additional sources returned a record with a url of the main source,
\* the later-listed one was collected first, and the record kept for that
\* url is the main source's
C24_Witness ==
    /\ pc = "filter"
    /\ \E s, t \in AdditionalSources :
          /\ s < t
          /\ \E i, j \in 1..Len(all_articles) :
                /\ i < j
                /\ all_articles[i].source = t
                /\ all_articles[j].source = s
                /\ url_of(all_articles[i]) \in Urls(FromSource(all_articles, MainSource))
                /\ url_of(all_articles[j]) = url_of(all_articles[i])
                /\ \E k \in 1..Len(unique_articles) :
                      /\ url_of(unique_articles[k]) = url_of(all_articles[i])
                      /\ unique_articles[k].source = MainSource

====
